---- MODULE Spec2Model ----
(***************************************************************************)
(* Model of src/status.py: the fetch -> merge -> diff -> persist run of    *)
(* main, with fetch_with_retry, fetch_all, merge_data, get_username and    *)
(* send_discord_message.                                                   *)
(*                                                                         *)
(* A Python dict is an insertion-ordered sequence of <<key, value>> pairs  *)
(* with distinct keys.  JSON strings are TLA+ strings; JSON null / Python  *)
(* None is the reserved value None.  A JSON file is modelled by the value  *)
(* json.load returns for it (json.dump/json.load of lists of dicts of      *)
(* strings and nulls loses nothing), or by the fact that it is missing or  *)
(* does not parse.                                                         *)
(***************************************************************************)
EXTENDS Integers, Sequences, FiniteSets, TLC

\* ------------------------------------------------------------------ bounds
MaxPeople == 2      \* longest account sequence an endpoint answer carries
MaxLen == 2         \* longest account / presence sequence given to merge_data

\* ------------------------------------------------------ program constants
MAX_RETRIES == 3
RETRY_BACKOFF == 5
\* SLEEP_BETWEEN_REQUESTS = 2.5, in tenths of a time-unit
SLEEP_BETWEEN_REQUESTS_TENTHS == 25

\* Python None / JSON null
None == "<None>"

\* ------------------------------------------------------------ dict helpers
\* k in d
Has(d, k) == \E i \in DOMAIN d : d[i][1] = k

\* d.get(k, default)
Get(d, k, default) ==
    IF Has(d, k) THEN d[CHOOSE i \in DOMAIN d : d[i][1] = k][2] ELSE default

\* d[k] = v : an existing key keeps its position, a new key goes last
DictSet(d, k, v) ==
    IF Has(d, k)
    THEN [i \in DOMAIN d |-> IF d[i][1] = k THEN <<k, v>> ELSE d[i]]
    ELSE Append(d, <<k, v>>)

\* truth value of a string-or-None value (`if not xuid`, `a or b`)
Truthy(v) == v # None /\ v # ""

\* ------------------------------------------------------------- merge_data
\* presence_map = {p.get("xuid", ""): p.get("lastSeen", {})
\*                 for p in presence_list if p.get("xuid")}
RECURSIVE presence_map_of(_)
presence_map_of(presence_list) ==
    IF presence_list = <<>> THEN <<>>
    ELSE LET n == Len(presence_list)
             p == presence_list[n]
             rest == presence_map_of(SubSeq(presence_list, 1, n - 1))
         IN IF Truthy(Get(p, "xuid", None))
            THEN DictSet(rest, Get(p, "xuid", ""), Get(p, "lastSeen", <<>>))
            ELSE rest

\* the three fields written at the insertion point (lines 130-132, 136-138)
InsertEnrichment(d, last_seen) ==
    DictSet(DictSet(DictSet(d,
        "deviceType", Get(last_seen, "deviceType", None)),
        "titleId", Get(last_seen, "titleId", None)),
        "titleName", Get(last_seen, "titleName", None))

\* the loop `for k, v in merged.items()` of lines 127-133, over the first n items
RECURSIVE CopyWithMarker(_, _, _)
CopyWithMarker(merged, n, last_seen) ==
    IF n = 0 THEN <<>>
    ELSE LET prev == CopyWithMarker(merged, n - 1, last_seen)
             k == merged[n][1]
             new == DictSet(prev, k, merged[n][2])
         IN IF k = "isXbox360Gamerpic" THEN InsertEnrichment(new, last_seen) ELSE new

\* the body of the loop over people for one user that has an xuid (lines 117-140)
MergeUser(user, pmap) ==
    LET last_seen == Get(pmap, Get(user, "xuid", None), <<>>)
        merged == IF Has(last_seen, "timestamp")
                  THEN DictSet(user, "lastSeenDateTimeUtc", Get(last_seen, "timestamp", None))
                  ELSE user
        new_merged == CopyWithMarker(merged, Len(merged), last_seen)
        inserted == Has(merged, "isXbox360Gamerpic")
    IN IF last_seen # <<>>
       THEN IF inserted THEN new_merged ELSE InsertEnrichment(new_merged, last_seen)
       ELSE user

SkipUser_missing_only(user) == ~Has(user, "xuid")

\* `if not xuid: continue` (lines 113-115)
SkipUser(user) == ~Truthy(Get(user, "xuid", None))

RECURSIVE MergeLoop(_, _)
MergeLoop(people, pmap) ==
    IF people = <<>> THEN <<>>
    ELSE LET n == Len(people)
             rest == MergeLoop(SubSeq(people, 1, n - 1), pmap)
         IN IF SkipUser(people[n]) THEN rest
            ELSE Append(rest, MergeUser(people[n], pmap))

merge_data(people, presence_list) == MergeLoop(people, presence_map_of(presence_list))

\* ------------------------------------------------------------ get_username
\* user.get("gamertag") or user.get("displayName") or user.get("realName") or "Unknown User"
get_username(user) ==
    IF Truthy(Get(user, "gamertag", None)) THEN Get(user, "gamertag", None)
    ELSE IF Truthy(Get(user, "displayName", None)) THEN Get(user, "displayName", None)
    ELSE IF Truthy(Get(user, "realName", None)) THEN Get(user, "realName", None)
    ELSE "Unknown User"

\* ------------------------------------------------------- fetch_with_retry
fetch_failure_swallowed(attempt, retries) == IF attempt < retries THEN "retry" ELSE "none"

fetch_failure_one_short(attempt, retries) == IF attempt < retries - 1 THEN "retry" ELSE "raise"

\* what the except branch does after the failed attempt number `attempt`
\* (0-based) : sleep and go round the loop again, or re-raise (lines 81-86)
fetch_failure(attempt, retries) == IF attempt < retries THEN "retry" ELSE "raise"

sleep_time_linear(attempt) == RETRY_BACKOFF * (attempt + 1)

\* sleep_time = RETRY_BACKOFF * (2 ** attempt)
sleep_time(attempt) == RETRY_BACKOFF * (2 ^ attempt)

\* the ways one requests.get / raise_for_status can raise RequestException
FailureKinds == {"transport", "http429", "http500"}

\* ---------------------------------------------------------------- fetch_all
\* people = account_data.get("people", []) if isinstance(account_data, dict) else []
people_of(account_data) ==
    IF account_data.shape = "dict" THEN account_data.items ELSE <<>>

\* presence_list = presence_data if isinstance(presence_data, list)
\*                 else presence_data.get("presence", []) or []
\* raises: .get on a value that is no dict (AttributeError);
\* isList = FALSE: the truthy non-list value of "presence" is returned as it is
normalize_presence(presence_data) ==
    CASE presence_data.shape = "list" ->
           [raises |-> FALSE, isList |-> TRUE, items |-> presence_data.items]
      [] presence_data.shape = "dict_list" ->
           [raises |-> FALSE, isList |-> TRUE, items |-> presence_data.items]
      [] presence_data.shape \in {"dict_nokey", "dict_null"} ->
           [raises |-> FALSE, isList |-> TRUE, items |-> <<>>]
      [] presence_data.shape = "dict_str" ->
           [raises |-> FALSE, isList |-> FALSE, items |-> <<>>]
      [] OTHER ->
           [raises |-> TRUE, isList |-> FALSE, items |-> <<>>]

\* --------------------------------------------------------- change detection
\* prev_data = {u.get("xuid"): u for u in prev_list if u.get("xuid")}
RECURSIVE prev_map_of(_)
prev_map_of(prev_list) ==
    IF prev_list = <<>> THEN <<>>
    ELSE LET n == Len(prev_list)
             u == prev_list[n]
             rest == prev_map_of(SubSeq(prev_list, 1, n - 1))
         IN IF Truthy(Get(u, "xuid", None)) THEN DictSet(rest, Get(u, "xuid", None), u)
            ELSE rest

\* current_state = user.get("presenceState", "Offline")
current_state_of(user) == Get(user, "presenceState", "Offline")

\* prev_state = prev_user.get("presenceState", "Offline") if prev_user else None
prev_state_of(prev_user) ==
    IF prev_user # <<>> THEN Get(prev_user, "presenceState", "Offline") ELSE None

should_send_and(current_state, prev_user) ==
    current_state # prev_state_of(prev_user) /\ prev_user = <<>>

\* if current_state != prev_state or not prev_user
should_send(current_state, prev_user) ==
    current_state # prev_state_of(prev_user) \/ prev_user = <<>>

\* status_text and details handed to send_discord_message (lines 216-224);
\* details is "" or the text f"{device} - {game}"
status_text_of(current_state) == IF current_state = "Online" THEN "Online" ELSE "Offline"

details_of(user, current_state) ==
    IF current_state = "Online" THEN ""
    ELSE LET ls == Get(user, "lastSeen", <<>>)
         IN Get(ls, "deviceType", "Unknown") \o " - " \o Get(ls, "titleName", "No game")

\* ----------------------------------------------------------------- inputs
A1on == << <<"xuid", "1">>, <<"gamertag", "Foo">>, <<"presenceState", "Online">> >>
A1away == << <<"xuid", "1">>, <<"gamertag", "Foo">>, <<"presenceState", "Away">> >>
A2 == << <<"xuid", "2">>, <<"isXbox360Gamerpic", "false">>, <<"realName", "Bar">> >>

P1 == << <<"xuid", "1">>,
         <<"lastSeen", << <<"deviceType", "XboxOne">>, <<"titleName", "Halo">>,
                          <<"timestamp", "t0">> >> >> >>

P2 == << <<"xuid", "2">>,
         <<"lastSeen", << <<"deviceType", "PC">>, <<"titleName", "Forza">> >> >> >>

AccountPool == {A1on, A1away, A2}

SeqsUpTo(S, n) == UNION {[1..m -> S] : m \in 0..n}

AccountResponses ==
    {[shape |-> "dict", items |-> s] : s \in SeqsUpTo(AccountPool, MaxPeople)}
    \cup {[shape |-> "list", items |-> <<A1on>>]}

PresenceResponses ==
    {[shape |-> "list", items |-> <<P1, P2>>],
     [shape |-> "dict_list", items |-> <<P1, P2>>],
     [shape |-> "dict_nokey", items |-> <<>>],
     [shape |-> "dict_null", items |-> <<>>],
     [shape |-> "dict_str", items |-> <<>>],
     [shape |-> "number", items |-> <<>>],
     [shape |-> "null", items |-> <<>>]}

\* returned by a function that falls off its end
NoneResponse == [shape |-> "null", items |-> <<>>]

\* no answer of the presence endpoint is held
NoData == [shape |-> "-", items |-> <<>>]

\* a file: missing, not parsable as JSON, or the JSON list `data`
Missing == [kind |-> "missing", data |-> <<>>]
Unparsable == [kind |-> "bad", data |-> <<>>]
JsonFile(data) == [kind |-> "json", data |-> data]

S1off == << <<"xuid", "1">>, <<"gamertag", "Foo">>, <<"presenceState", "Offline">> >>
S1nostate == << <<"xuid", "1">>, <<"gamertag", "Foo">> >>
S2off == << <<"xuid", "2">>, <<"realName", "Bar">>, <<"presenceState", "Offline">> >>

PrevFiles == {Missing, Unparsable, JsonFile(<<S1off, S2off>>), JsonFile(<<S1nostate>>)}

XuidFiles == {Missing, JsonFile(<<>>), JsonFile(<<"1", "2">>)}

\* ------------------------------------------------------------------ state
VARIABLES
    pc,              \* position of main
    remote,          \* the private repository: xuids.txt and ApiData_previous.json
    clone,           \* CLONE_DIR: the same two files in the local checkout
    OUTPUT_FILE,     \* ApiData.json in the working directory
    DISCORD_WEBHOOK, \* TRUE iff DISCORD_WEBHOOK_URL is set
    xuids,
    attempt,         \* loop variable of the running fetch_with_retry
    log,             \* what fetch_all has done since the last fetch returned: the
                     \* requests, failures, sleeps and return of the running fetch
    people,
    presence_data,   \* the parsed answer of the presence endpoint, until merge_data runs
    presence_list,
    final_data,
    prev_data,
    idx,             \* position of the loop over final_data (1-based)
    notifications,   \* calls of send_discord_message in this run, in order
    err,             \* the exception that ended the run, "" if none
    failed_kind,     \* how the latest attempt of the running fetch failed, "" if it did not
    fetched,         \* TRUE once fetch_all has returned in this run
    startOutput,     \* OUTPUT_FILE as it was when this run started
    last_fetched     \* TRUE when fetch_all returned in the run before this one

vars == <<pc, remote, clone, OUTPUT_FILE, DISCORD_WEBHOOK, xuids, attempt, log,
          people, presence_data, presence_list, final_data, prev_data, idx,
          notifications, err, failed_kind, fetched, startOutput, last_fetched>>

NoList == [isList |-> TRUE, items |-> <<>>]

Init ==
    /\ pc = "idle"
    /\ remote \in [xuids : XuidFiles, prev : PrevFiles]
    /\ clone = [xuids |-> Missing, prev |-> Missing]
    /\ OUTPUT_FILE = Missing
    /\ DISCORD_WEBHOOK \in BOOLEAN
    /\ xuids = <<>>
    /\ attempt = 0
    /\ log = <<>>
    /\ people = <<>>
    /\ presence_data = NoData
    /\ presence_list = NoList
    /\ final_data = <<>>
    /\ prev_data = <<>>
    /\ idx = 1
    /\ notifications = <<>>
    /\ err = ""
    /\ failed_kind = ""
    /\ fetched = FALSE
    /\ startOutput = Missing
    /\ last_fetched = FALSE

Event(ev, ep, n) == [ev |-> ev, ep |-> ep, n |-> n]

\* the except clause of main: print, re-raise (lines 257-259)
Raise(e) == pc' = "error" /\ err' = e

\* main is started, for the first time or again after a run has ended;
\* clone_or_update_repo removes CLONE_DIR and clones the repository again
\* (lines 179-181)
StartRun ==
    /\ pc \in {"idle", "done", "error"}
    /\ clone' = remote
    /\ pc' = "read_xuids"
    /\ xuids' = <<>>
    /\ attempt' = 0
    /\ log' = <<>>
    /\ people' = <<>>
    /\ presence_data' = NoData
    /\ presence_list' = NoList
    /\ final_data' = <<>>
    /\ prev_data' = <<>>
    /\ idx' = 1
    /\ notifications' = <<>>
    /\ err' = ""
    /\ failed_kind' = ""
    /\ fetched' = FALSE
    /\ startOutput' = OUTPUT_FILE
    /\ last_fetched' = fetched
    /\ UNCHANGED <<remote, OUTPUT_FILE, DISCORD_WEBHOOK>>

xuids_outcome_missing_is_empty(file) ==
    IF file.kind = "missing" \/ file.data = <<>> THEN "return" ELSE "fetch"

\* what main does with xuids.txt: read_xuids raises FileNotFoundError when the
\* file does not exist, main returns when no line is left, and goes on to
\* fetch_all otherwise (lines 61-62, 184-186)
xuids_outcome(file) ==
    IF file.kind = "missing" THEN "raise"
    ELSE IF file.data = <<>> THEN "return" ELSE "fetch"

\* read_xuids and the `if not xuids: return` of main (lines 60-68, 182-186)
ReadXuids ==
    /\ pc = "read_xuids"
    /\ IF xuids_outcome(clone.xuids) = "raise"
       THEN Raise("FileNotFoundError") /\ UNCHANGED xuids
       ELSE /\ xuids' = clone.xuids.data
            /\ pc' = IF xuids_outcome(clone.xuids) = "return" THEN "done" ELSE "account"
            /\ UNCHANGED err
    /\ UNCHANGED <<remote, clone, OUTPUT_FILE, DISCORD_WEBHOOK, attempt, log, people,
                   presence_data, presence_list, final_data, prev_data, idx,
                   notifications, failed_kind, fetched, startOutput, last_fetched>>

AccountReturned_no_pacing(account_data, last) ==
    /\ people' = people_of(account_data)
    /\ log' = <<Event("returned", "account", 0)>>
    /\ attempt' = 0
    /\ failed_kind' = ""
    /\ pc' = "presence"
    /\ UNCHANGED <<err, presence_data, presence_list, fetched>>

\* fetch_all after the account fetch has returned account_data (lines 98-102);
\* last: the events of the attempt that ended the fetch
AccountReturned(account_data, last) ==
    /\ people' = people_of(account_data)
    /\ log' = <<Event("returned", "account", 0),
                Event("pacing", "-", SLEEP_BETWEEN_REQUESTS_TENTHS)>>
    /\ attempt' = 0
    /\ failed_kind' = ""
    /\ pc' = "presence"
    /\ UNCHANGED <<err, presence_data, presence_list, fetched>>

\* fetch_all after the presence fetch has returned presence_data (lines 104-106)
PresenceReturned(data, last) ==
    LET r == normalize_presence(data)
    IN /\ presence_data' = data
       /\ failed_kind' = ""
       /\ attempt' = 0
       /\ UNCHANGED people
       /\ IF r.raises
          THEN /\ Raise("AttributeError")
               /\ log' = log \o last
               /\ UNCHANGED <<presence_list, fetched>>
          ELSE /\ presence_list' = [isList |-> r.isList, items |-> r.items]
               /\ log' = <<Event("returned", "presence", 0)>>
               /\ fetched' = TRUE
               /\ pc' = "merge"
               /\ UNCHANGED err

Returned(ep, data, last) ==
    IF ep = "account" THEN AccountReturned(data, last) ELSE PresenceReturned(data, last)

\* one attempt of fetch_with_retry that raises RequestException (lines 76-86)
FetchFails(ep, kind) ==
    LET o == fetch_failure(attempt, MAX_RETRIES)
    IN CASE o = "retry" ->
              /\ log' = log \o <<Event("request", ep, attempt),
                                 Event("failed", ep, attempt),
                                 Event("backoff", ep, sleep_time(attempt))>>
              /\ attempt' = attempt + 1
              /\ failed_kind' = kind
              /\ UNCHANGED <<pc, err, people, presence_data, presence_list, fetched>>
         [] o = "raise" ->
              /\ log' = log \o <<Event("request", ep, attempt),
                                 Event("failed", ep, attempt)>>
              /\ failed_kind' = kind
              /\ Raise(kind)
              /\ UNCHANGED <<attempt, people, presence_data, presence_list, fetched>>
         [] OTHER ->
              \* the loop ends without a return statement: None is returned
              Returned(ep, NoneResponse, <<Event("request", ep, attempt),
                                           Event("failed", ep, attempt)>>)

FetchFrame == UNCHANGED <<remote, clone, OUTPUT_FILE, DISCORD_WEBHOOK, xuids,
                          final_data, prev_data, idx, notifications, startOutput, last_fetched>>

AccountFail ==
    /\ pc = "account"
    /\ \E kind \in FailureKinds : FetchFails("account", kind)
    /\ FetchFrame

\* the attempt succeeds: resp.json() is returned (lines 73-75)
AccountOK ==
    /\ pc = "account"
    /\ \E data \in AccountResponses :
          AccountReturned(data, <<Event("request", "account", attempt)>>)
    /\ FetchFrame

PresenceFail ==
    /\ pc = "presence"
    /\ \E kind \in FailureKinds : FetchFails("presence", kind)
    /\ FetchFrame

PresenceOK ==
    /\ pc = "presence"
    /\ \E data \in PresenceResponses :
          PresenceReturned(data, <<Event("request", "presence", attempt)>>)
    /\ FetchFrame

\* final_data = merge_data(people, presence) (lines 190-192); iterating over a
\* presence value that is a string calls .get on its characters
Merge ==
    /\ pc = "merge"
    /\ IF presence_list.isList
       THEN /\ final_data' = merge_data(people, presence_list.items)
            /\ pc' = "load_prev"
            /\ UNCHANGED err
       ELSE Raise("AttributeError") /\ UNCHANGED final_data
    /\ presence_data' = NoData
    /\ UNCHANGED <<remote, clone, OUTPUT_FILE, DISCORD_WEBHOOK, xuids, attempt, log,
                   people, presence_list, prev_data, idx, notifications, failed_kind,
                   fetched, startOutput, last_fetched>>

\* load the previous data (lines 194-200)
LoadPrevious ==
    /\ pc = "load_prev"
    /\ CASE clone.prev.kind = "missing" ->
              prev_data' = <<>> /\ pc' = "check" /\ UNCHANGED err
         [] clone.prev.kind = "bad" ->
              Raise("JSONDecodeError") /\ UNCHANGED prev_data
         [] OTHER ->
              prev_data' = prev_map_of(clone.prev.data) /\ pc' = "check" /\ UNCHANGED err
    /\ UNCHANGED <<remote, clone, OUTPUT_FILE, DISCORD_WEBHOOK, xuids, attempt, log,
                   people, presence_data, presence_list, final_data, idx,
                   notifications, failed_kind, fetched, startOutput, last_fetched>>

\* send_discord_message: nothing is posted without a webhook; a failed post
\* is printed and swallowed (lines 154-176)
Deliveries == IF DISCORD_WEBHOOK THEN {"ok", "failed"} ELSE {"skipped"}

after_delivery_uncaught(d) == IF d = "failed" THEN "raise" ELSE "return"

\* how send_discord_message ends after the delivery d: `except Exception`
\* catches the failure of requests.post / raise_for_status (lines 171-176)
after_delivery(d) == "return"

\* one round of the loop over final_data (lines 203-226)
CheckUser ==
    /\ pc = "check"
    /\ idx <= Len(final_data)
    /\ LET user == final_data[idx]
           xuid == Get(user, "xuid", None)
           current_state == current_state_of(user)
           prev_user == Get(prev_data, xuid, <<>>)
       IN IF Truthy(xuid) /\ should_send(current_state, prev_user)
          THEN \E d \in Deliveries :
                  /\ notifications' = Append(notifications,
                         [pos |-> idx, xuid |-> xuid, username |-> get_username(user),
                          status |-> status_text_of(current_state),
                          details |-> details_of(user, current_state),
                          delivery |-> d])
                  /\ IF after_delivery(d) = "raise"
                     THEN Raise("HTTPError") /\ UNCHANGED idx
                     ELSE idx' = idx + 1 /\ UNCHANGED <<pc, err>>
          ELSE idx' = idx + 1 /\ UNCHANGED <<notifications, pc, err>>
    /\ UNCHANGED <<remote, clone, OUTPUT_FILE, DISCORD_WEBHOOK, xuids, attempt,
                   log, people, presence_data, presence_list, final_data, prev_data,
                   failed_kind, fetched, startOutput, last_fetched>>

\* json.dump(final_data) into OUTPUT_FILE (lines 228-232)
SaveOutput ==
    /\ pc = "check"
    /\ idx > Len(final_data)
    /\ OUTPUT_FILE' = JsonFile(final_data)
    /\ pc' = "copy"
    /\ UNCHANGED <<remote, clone, DISCORD_WEBHOOK, xuids, attempt, log, people,
                   presence_data, presence_list, final_data, prev_data, idx,
                   notifications, err, failed_kind, fetched, startOutput, last_fetched>>

\* shutil.copy(OUTPUT_FILE, OUTPUT_IN_REPO): the name OUTPUT_IN_REPO is defined
\* nowhere, so evaluating the argument raises NameError (line 233); lines
\* 236-255 (the copy to PREV_FILE, git add / commit / push) are never reached
CopyOutputInRepo ==
    /\ pc = "copy"
    /\ Raise("NameError")
    /\ UNCHANGED <<remote, clone, OUTPUT_FILE, DISCORD_WEBHOOK, xuids, attempt, log,
                   people, presence_data, presence_list, final_data, prev_data, idx,
                   notifications, failed_kind, fetched, startOutput, last_fetched>>

Next ==
    \/ StartRun
    \/ ReadXuids
    \/ AccountFail
    \/ AccountOK
    \/ PresenceFail
    \/ PresenceOK
    \/ Merge
    \/ LoadPrevious
    \/ CheckUser
    \/ SaveOutput
    \/ CopyOutputInRepo

Spec == Init /\ [][Next]_vars

\* ------------------------------------------------ merge_data on its own
\* merge_data applied to account and presence sequences drawn from the pools
M1 == << <<"xuid", "1">>, <<"gamertag", "Foo">> >>
M1on == << <<"xuid", "1">>, <<"presenceState", "Online">>, <<"gamertag", "Foo">> >>
M2 == << <<"gamertag", "Bar">>, <<"isXbox360Gamerpic", "false">>, <<"xuid", "2">> >>
M3 == << <<"xuid", "3">>, <<"isXbox360Gamerpic", "true">>, <<"deviceType", "acct">> >>
MnoKey == << <<"gamertag", "NoId">>, <<"presenceState", "Online">> >>
MemptyKey == << <<"xuid", "">>, <<"gamertag", "Empty">> >>
MnullKey == << <<"xuid", None>>, <<"gamertag", "Null">> >>

M4 == << <<"xuid", "4">>, <<"deviceType", "acct">>, <<"gamertag", "Baz">> >>

MergeAccountPool == {M1, M1on, M2, M3, M4, MnoKey, MemptyKey, MnullKey}

Q1 == << <<"xuid", "1">>,
         <<"lastSeen", << <<"deviceType", "XboxOne">>, <<"titleId", "42">>,
                          <<"titleName", "Halo">>, <<"timestamp", "t0">> >> >> >>
Q1on == << <<"xuid", "1">>, <<"state", "Online">>,
           <<"lastSeen", << <<"deviceType", "PC">> >> >> >>
Q2 == << <<"xuid", "2">>, <<"lastSeen", << <<"titleName", "Forza">> >> >> >>
Q3 == << <<"xuid", "3">>, <<"lastSeen", << <<"deviceType", "Scarlett">>,
                                           <<"timestamp", "t1">> >> >> >>
Q7 == << <<"xuid", "7">>, <<"state", "Online">>,
         <<"lastSeen", << <<"deviceType", "XboxOne">> >> >> >>
QnoKey == << <<"lastSeen", << <<"deviceType", "XboxOne">> >> >> >>

Q2t == << <<"xuid", "2">>, <<"lastSeen", << <<"deviceType", "PC">>,
                                            <<"timestamp", "t2">> >> >> >>
Q4 == << <<"xuid", "4">>, <<"lastSeen", << <<"deviceType", "XboxOne">> >> >> >>

MergePresencePool == {Q1, Q1on, Q2, Q2t, Q3, Q4, Q7, QnoKey}

MergeInit ==
    /\ pc = "merge_in"
    /\ people \in SeqsUpTo(MergeAccountPool, MaxLen)
    /\ \E P \in SeqsUpTo(MergePresencePool, MaxLen) :
          presence_list = [isList |-> TRUE, items |-> P]
    /\ remote = [xuids |-> Missing, prev |-> Missing]
    /\ clone = [xuids |-> Missing, prev |-> Missing]
    /\ OUTPUT_FILE = Missing
    /\ DISCORD_WEBHOOK = FALSE
    /\ xuids = <<>>
    /\ attempt = 0
    /\ log = <<>>
    /\ presence_data = NoData
    /\ final_data = <<>>
    /\ prev_data = <<>>
    /\ idx = 1
    /\ notifications = <<>>
    /\ err = ""
    /\ failed_kind = ""
    /\ fetched = FALSE
    /\ startOutput = Missing
    /\ last_fetched = FALSE

MergeApply ==
    /\ pc = "merge_in"
    /\ final_data' = merge_data(people, presence_list.items)
    /\ pc' = "merge_out"
    /\ UNCHANGED <<remote, clone, OUTPUT_FILE, DISCORD_WEBHOOK, xuids, attempt, log,
                   people, presence_data, presence_list, prev_data, idx, notifications,
                   err, failed_kind, fetched, startOutput, last_fetched>>

MergeNext == MergeApply

MergeSpec == MergeInit /\ [][MergeNext]_vars

\* ------------------------------------------------------------- properties
TypeOK == pc \in {"idle", "read_xuids", "account", "presence", "merge", "load_prev",
                  "check", "copy", "done", "error", "merge_in", "merge_out"}

RunEnded == pc \in {"done", "error"}

\* the positions of log that hold an event ev of endpoint ep
EventsAt(ev, ep) == {i \in DOMAIN log : log[i].ev = ev /\ log[i].ep = ep}
Requests(ep) == Cardinality(EventsAt("request", ep))
Failed(ep) == Cardinality(EventsAt("failed", ep))
Endpoints == {"account", "presence"}

\* the positions of final_data the change-detection pass has been over
Checked == {i \in DOMAIN final_data : pc \in {"check", "copy", "done", "error"} /\ i < idx}
NotifiedAt(i) == {n \in DOMAIN notifications : notifications[n].pos = i}

\* C1: no notification is sent for an identity that has no record in the
\* previous snapshot, whatever its current state is
C1_FirstRunSuppression ==
    \A n \in DOMAIN notifications : Has(prev_data, notifications[n].xuid)

\* C2: for every identity whose previous record carries a state, a
\* notification is sent if and only if the previous state differs from the
\* current state, and then exactly one
C2_NotifyIffStateChanged ==
    \A i \in Checked :
        LET user == final_data[i]
            prev_user == Get(prev_data, Get(user, "xuid", None), <<>>)
        IN Has(prev_user, "presenceState") =>
              Cardinality(NotifiedAt(i)) =
                  IF Get(prev_user, "presenceState", None) # Get(user, "presenceState", "Offline")
                  THEN 1 ELSE 0

C2_Witness ==
    /\ pc = "copy"
    /\ \E i, j \in Checked :
          LET pi == Get(prev_data, Get(final_data[i], "xuid", None), <<>>)
              pj == Get(prev_data, Get(final_data[j], "xuid", None), <<>>)
          IN /\ Get(pi, "presenceState", None) = "Offline"
             /\ Get(final_data[i], "presenceState", None) = "Online"
             /\ NotifiedAt(i) # {}
             /\ Get(pj, "presenceState", None) = "Offline"
             /\ Get(final_data[j], "presenceState", "Offline") = "Offline"
             /\ NotifiedAt(j) = {}

\* C3: a run in which both fetches succeed ends with the previous-snapshot
\* file holding this run's merged records (runs ended by a malformed presence
\* answer or an unreadable snapshot, the cases of C8 and C12, left aside)
C3_SnapshotRoundTrip ==
    (RunEnded /\ fetched /\ err \notin {"AttributeError", "JSONDecodeError"}) =>
        /\ clone.prev = JsonFile(final_data)
        /\ prev_map_of(clone.prev.data) = prev_map_of(final_data)

\* C4: a run that ends with an error leaves the merged output file and the
\* previous snapshot as they were when the run started
C4_AtomicRunOutcome ==
    pc = "error" => (OUTPUT_FILE = startOutput /\ clone.prev = remote.prev)

\* C5: when a fetch has used up its retries the run ends with that error, no
\* merged output is written, the previous snapshot is unchanged and no
\* notification is sent
C5_FetchExhaustedIsFatal ==
    \A ep \in Endpoints :
        Failed(ep) > MAX_RETRIES =>
            /\ pc = "error"
            /\ err \in FailureKinds
            /\ OUTPUT_FILE = startOutput
            /\ clone.prev = remote.prev
            /\ notifications = <<>>
            /\ final_data = <<>>

C5_Witness ==
    /\ startOutput.kind = "json"
    /\ Failed("presence") > MAX_RETRIES
    /\ Failed("account") = 0
    /\ pc = "error"
    /\ OUTPUT_FILE.kind = "json"
    /\ OUTPUT_FILE.data # <<>>

\* C6 as stated: after three consecutive failed attempts the fetch ends in
\* the retries-exhausted error and three requests is all it has made
C6_ThreeFailuresExhaust ==
    \A ep \in Endpoints :
        Failed(ep) >= 3 => (pc = "error" /\ err \in FailureKinds /\ Requests(ep) = 3)

\* C6 amended: the fetch ends in the retries-exhausted error after four
\* consecutive failed attempts (the first attempt and three retries) and not
\* before, it has then made four requests, and no snapshot or output write
\* occurs in that run
C6_FourFailuresExhaust ==
    /\ \A ep \in Endpoints :
          /\ Requests(ep) <= 4
          /\ Failed(ep) = 4 =>
                /\ pc = "error" /\ err \in FailureKinds
                /\ Requests(ep) = 4
                /\ OUTPUT_FILE = startOutput
                /\ clone.prev = remote.prev
    /\ (pc = "error" /\ err \in FailureKinds) => \E ep \in Endpoints : Failed(ep) = 4

C6_Witness ==
    /\ pc = "error"
    /\ err = "http500"
    /\ Failed("account") = 4
    /\ Requests("account") = 4

\* C7: after the k-th consecutive failed attempt (k = 1, 2, 3) the wait is
\* 5, 10, 20; a wait stands only between a failed attempt and the next
\* attempt of the same fetch, none follows the fourth failure or a success;
\* the kind of failure makes no difference
BackoffSchedule == <<5, 10, 20>>

C7_BackoffSchedule ==
    \A i \in DOMAIN log :
        /\ log[i].ev = "failed" =>
              LET k == Cardinality({j \in EventsAt("failed", log[i].ep) : j <= i})
              IN /\ log[i - 1] = Event("request", log[i].ep, k - 1)
                 /\ IF k <= 3
                    THEN /\ i < Len(log)
                         /\ log[i + 1] = Event("backoff", log[i].ep, BackoffSchedule[k])
                    ELSE i = Len(log) /\ pc = "error"
        /\ log[i].ev = "backoff" =>
              /\ log[i - 1].ev = "failed" /\ log[i - 1].ep = log[i].ep
              /\ i < Len(log) => (log[i + 1].ev = "request" /\ log[i + 1].ep = log[i].ep)
        /\ log[i].ev \in {"request", "returned", "pacing"} =>
              (i < Len(log) => log[i + 1].ev # "backoff")

C7_Witness ==
    /\ failed_kind = "http429"
    /\ pc = "presence"
    /\ log[1].ev = "returned"
    /\ \E i \in DOMAIN log : log[i] = Event("backoff", "presence", 5)
    /\ \E i \in DOMAIN log : log[i] = Event("backoff", "presence", 10)
    /\ \E i \in DOMAIN log : log[i] = Event("backoff", "presence", 20)

\* C8: a parsed presence answer that is neither a sequence nor an object
\* whose `presence` field holds a sequence gives the empty presence sequence,
\* raises nothing, and the run goes on to the merge
NeitherShape == {"dict_nokey", "dict_null", "dict_str", "number", "null"}

C8_MalformedPresenceIsEmpty ==
    presence_data.shape \in NeitherShape =>
        /\ err = ""
        /\ pc = "merge"
        /\ presence_list = [isList |-> TRUE, items |-> <<>>]

\* the xuid values of a sequence of records, in order
XuidsOf(records) == [i \in DOMAIN records |-> Get(records[i], "xuid", None)]

HasKey(user) == Has(user, "xuid") /\ user[CHOOSE i \in DOMAIN user : user[i][1] = "xuid"][2]
                                        \notin {"", None}

\* C9: the identity keys of merge_data(A, P), in output order, are the
\* identity keys of the records of A that have a non-empty identity key, in
\* A's order; so the output is no longer than A and an identity that is only
\* in P is not in the output
C9_MergeKeysAreAccountKeys ==
    pc = "merge_out" =>
        /\ XuidsOf(final_data) = XuidsOf(SelectSeq(people, HasKey))
        /\ Len(final_data) <= Len(people)
        /\ \A i \in DOMAIN final_data :
              \E j \in DOMAIN people : Get(people[j], "xuid", None) = Get(final_data[i], "xuid", None)

C9_Witness ==
    /\ pc = "merge_out"
    /\ people = <<MemptyKey, M2>>
    /\ presence_list.items = <<Q7, Q2>>
    /\ Len(final_data) = 1

\* C10: the merged record of an account record whose identity has a presence
\* record with no state given carries a presence-state field with the value
\* Offline
C10_StateDefaultsToOffline ==
    pc = "merge_out" =>
        \A i \in DOMAIN final_data :
            (\E j \in DOMAIN presence_list.items :
                /\ Get(presence_list.items[j], "xuid", None) = Get(final_data[i], "xuid", None)
                /\ ~Has(presence_list.items[j], "state")
                /\ \A l \in DOMAIN presence_list.items :
                      Get(presence_list.items[l], "xuid", None) = Get(final_data[i], "xuid", None)
                          => l = j)
            => Get(final_data[i], "presenceState", None) = "Offline"

\* the account records merge_data makes a merged record of, in order: record
\* i of them is the source of final_data[i]
Kept == SelectSeq(people, HasKey)

\* the positions of the merged record whose field is not a field of the
\* account record it was made from
AddedAt(merged, user) == {n \in DOMAIN merged : ~Has(user, merged[n][1])}

MarkerAt(d) == CHOOSE n \in DOMAIN d : d[n][1] = "isXbox360Gamerpic"

EnrichmentFields == {"deviceType", "titleId", "titleName", "lastSeenDateTimeUtc"}

\* C11: the fields merge_data adds to a record sit together at one place:
\* right after the marker field isXbox360Gamerpic when the account record has
\* it, otherwise after all copied account fields (account records that have
\* a field with the name of an enrichment field, the case of C20, left aside)
C11_SingleInsertionPoint ==
    pc = "merge_out" =>
        \A i \in DOMAIN final_data :
            LET merged == final_data[i]
                user == Kept[i]
                added == AddedAt(merged, user)
                first == IF Has(user, "isXbox360Gamerpic")
                         THEN MarkerAt(merged) + 1
                         ELSE Len(user) + 1
            IN (added # {} /\ \A k \in EnrichmentFields : ~Has(user, k)) =>
                   added = first .. (first + Cardinality(added) - 1)

\* C20: every field of an account record that has an identity key is in its
\* merged record with the value the account record gives it
C20_AccountFieldsVerbatim ==
    pc = "merge_out" =>
        \A i \in DOMAIN final_data :
            \A n \in DOMAIN Kept[i] :
                /\ Has(final_data[i], Kept[i][n][1])
                /\ Get(final_data[i], Kept[i][n][1], None) = Kept[i][n][2]

\* C12: a previous-snapshot file that is missing or does not parse gives the
\* empty previous mapping and never ends the run
C12_SnapshotLoadNeverFails ==
    clone.prev.kind \in {"missing", "bad"} =>
        /\ prev_data = <<>>
        /\ err # "JSONDecodeError"

\* the record of identity x in the previous mapping, <<>> if there is none
PrevOf(user) == Get(prev_data, Get(user, "xuid", None), <<>>)

FailedDeliveries == {n \in DOMAIN notifications : notifications[n].delivery = "failed"}

\* C13: a failed delivery is not retried and ends nothing: each identity is
\* handed to send_discord_message at most once, whether an identity is
\* notified does not depend on how earlier deliveries went, the loop goes over
\* every identity before the run goes on to the persistence step (or ends);
\* without a webhook the same holds and every delivery is skipped
C13_DeliveryFailureAbsorbed ==
    /\ \A i \in Checked :
          Cardinality(NotifiedAt(i)) =
              IF should_send(current_state_of(final_data[i]), PrevOf(final_data[i]))
              THEN 1 ELSE 0
    /\ (pc \in {"copy", "error"} /\ notifications # <<>>) => idx = Len(final_data) + 1
    /\ pc = "check" => err = ""
    /\ \A n \in DOMAIN notifications :
          notifications[n].delivery = IF DISCORD_WEBHOOK THEN notifications[n].delivery
                                      ELSE "skipped"
    /\ DISCORD_WEBHOOK => \A n \in DOMAIN notifications :
                             notifications[n].delivery \in {"ok", "failed"}

C13_Witness ==
    /\ pc = "copy"
    /\ Len(notifications) = 2
    /\ notifications[1].delivery = "failed"
    /\ notifications[2].delivery = "ok"
    /\ notifications[1].xuid # notifications[2].xuid
    /\ OUTPUT_FILE = JsonFile(final_data)

\* C14: the state a notification shows is the current state of the merged
\* record that triggered it
C14_NotificationShowsNewState ==
    \A n \in DOMAIN notifications :
        notifications[n].status =
            Get(final_data[notifications[n].pos], "presenceState", "Offline")

\* the value of field k of a record, or the placeholder when the record has
\* no such value
FieldOr(rec, k, placeholder) ==
    IF Truthy(Get(rec, k, None)) THEN Get(rec, k, None) ELSE placeholder

\* C15: the detail text of the notification of an identity that is Offline is
\* the device type and the title name of its merged record, with Unknown / No
\* game only where the record has none
C15_OfflineDetails ==
    \A n \in DOMAIN notifications :
        LET rec == final_data[notifications[n].pos]
        IN Get(rec, "presenceState", "Offline") = "Offline" =>
              notifications[n].details =
                  FieldOr(rec, "deviceType", "Unknown") \o " - "
                      \o FieldOr(rec, "titleName", "No game")

\* C16: no notification is sent for an identity whose previous record carries
\* no state field
C16_NoStateInPreviousSuppresses ==
    \A n \in DOMAIN notifications :
        LET prev_user == PrevOf(final_data[notifications[n].pos])
        IN ~(prev_user # <<>> /\ ~Has(prev_user, "presenceState"))

NoXuids == clone.xuids.kind = "missing" \/ clone.xuids.data = <<>>

\* C17 as stated: with the identity-key list missing or empty the run ends
\* as a fatal error and has made no request
C17_NoXuidsIsFatal ==
    (NoXuids /\ pc # "idle") =>
        /\ pc \in {"read_xuids", "error"}
        /\ log = <<>>

\* C17 amended: with the identity-key list missing the run ends as a fatal
\* error (FileNotFoundError); with the list present but empty the run ends
\* normally; in both cases no request has been made, nothing is written and
\* no notification is sent
C17_NoXuidsEndsBeforeFetch ==
    (NoXuids /\ pc # "idle") =>
        /\ pc \in {"read_xuids", "done", "error"}
        /\ pc = "error" <=> (RunEnded /\ clone.xuids.kind = "missing")
        /\ pc = "error" => err = "FileNotFoundError"
        /\ pc = "done" => err = ""
        /\ log = <<>>
        /\ ~fetched
        /\ notifications = <<>>
        /\ OUTPUT_FILE = startOutput

C17_Witness ==
    /\ pc = "done"
    /\ clone.xuids = JsonFile(<<>>)
    /\ xuids = <<>>

PacingAt == {i \in DOMAIN log : log[i].ev = "pacing"}

\* C18: a presence request is made only after the account fetch has returned,
\* and between that return and the first presence request there is exactly
\* one pacing delay of 2.5 time-units, which is no backoff wait
C18_PacingBetweenFetches ==
    /\ pc = "account" => (EventsAt("request", "presence") = {} /\ PacingAt = {})
    /\ pc = "presence" =>
          /\ Len(log) >= 2
          /\ log[1] = Event("returned", "account", 0)
    /\ PacingAt \subseteq {2}
    /\ log # <<>> /\ log[1] = Event("returned", "account", 0) =>
          /\ Len(log) >= 2
          /\ log[2] = Event("pacing", "-", 25)
          /\ Len(log) >= 3 => log[3] = Event("request", "presence", 0)
    /\ \A i \in EventsAt("request", "presence") :
          /\ i >= 3
          /\ log[1] = Event("returned", "account", 0)
          /\ log[2].ev = "pacing"
    /\ \A i \in DOMAIN log : log[i].ev = "backoff" => log[i].ep \in Endpoints

C18_Witness ==
    /\ pc = "presence"
    /\ attempt = 2
    /\ Len(log) = 8
    /\ log[2] = Event("pacing", "-", 25)
    /\ log[5] = Event("backoff", "presence", 5)

\* the merged records of the run before this one, by identity
LastRunRecords == prev_map_of(startOutput.data)

\* C19: when the run before this one fetched successfully, this run sends no
\* notification for an identity that has a previous record and whose state is
\* the same as in the merged records of that run
C19_NoRepeatedAlert ==
    last_fetched =>
        \A n \in DOMAIN notifications :
            LET rec == final_data[notifications[n].pos]
                last == Get(LastRunRecords, notifications[n].xuid, <<>>)
            IN ~ /\ Has(PrevOf(rec), "presenceState")
                 /\ last # <<>>
                 /\ Get(last, "presenceState", "Offline")
                        = Get(rec, "presenceState", "Offline")
====
